---- MODULE Spec2Model ----
(***************************************************************************)
(* TOPPQualityControl::main_ (src/src/topp/QualityControl.cpp) as a state  *)
(* machine: the parallel file-list validator, the identity join index, the *)
(* run-to-identifier map, the per-run loop (loading, requirement-gated     *)
(* scheduling of the QC metrics, staging of new identifications, storing   *)
(* of feature files, merge-back) and the report assembly.                  *)
(*                                                                         *)
(* A file list is modelled by its length (the file names only select what  *)
(* is loaded, and what is loaded is an input).  A meta value container is  *)
(* a function from keys to integers.  A PeptideIdentification is a record  *)
(* [meta, hits] with hits a sequence of meta value containers (hit 1 is    *)
(* the top-ranked hit).  A pointer into the ConsensusMap is a pair         *)
(* <<g, s>>: slot s of consensus feature g, g = 0 being the unassigned     *)
(* list.                                                                   *)
(***************************************************************************)
EXTENDS Integers, Sequences, FiniteSets, TLC

VARIABLES
  param,              \* the tool's parameters and the content of the file in_cm
  pc,                 \* position in main_
  ret,                \* how main_ ended: [code, msg]
  status,             \* QCBase::Status status
  number_exps,        \* UInt64 number_exps
  in_raw,             \* StringList in_raw       (its size)
  in_postFDR,         \* StringList in_postFDR   (its size)
  in_trafo,           \* StringList in_trafo     (its size)
  cmap,               \* ConsensusMap cmap
  cmap0,              \* history: cmap as it was when the per-run loop started
  map_to_id,          \* map<String, PeptideIdentification*> map_to_id
  map_to_identifier,  \* map<StringList, String> map_to_identifier
  i,                  \* the per-run loop's index
  run_path,           \* the primary MS run path of the run's FeatureMap fmap
  all_new_upep_ids,   \* vector<PeptideIdentification> all_new_upep_ids
  calls,              \* history: the compute calls made, <<metric, run>>, in order
  warned,             \* history: the warnings isRunnable_ logged, <<metric, requirement, run>>
  custom,             \* meta.custom of the exported MzTab
  ub,                 \* history: the places where undefined behaviour was executed
  met                 \* history: the kinds <<has UID, has hits>> of the identifications
                      \* the latest merge-back examined (cleared by the next step)

vars == <<param, pc, ret, status, number_exps, in_raw, in_postFDR, in_trafo, cmap, cmap0,
          map_to_id, map_to_identifier, i, run_path, all_new_upep_ids, calls, warned,
          custom, ub, met>>

\* ---------------------------------------------------------------- bounds
\* the longest file list a parameter holds
MaxFiles == 2
\* the most consensus features the file in_cm holds
MaxGroups == 1

\* ---------------------------------------------------------------- universes
UIDs == {101, 102}
QcValues == {1, 2}
RunPaths == {<<"A.raw">>, <<"B.raw">>}
NoMeta == << >>

SeqsUpTo(S, n) == UNION {[1..k -> S] : k \in 0..n}
Lists1(S) == {<< >>} \cup {<<x>> : x \in S}

\* the identifications a consensusXML file can hold: with or without the UID
\* meta value, with or without a hit
CanonRecs ==
  {[meta |-> m, hits |-> h, identifier |-> "PI_A"] :
     m \in {NoMeta} \cup {("UID" :> u) : u \in UIDs},
     h \in {<< >>, <<NoMeta>>}}

ProtId(path, id) == [run_path |-> path, identifier |-> id]
\* the protein identification runs a consensusXML file can hold
ProtLists ==
  { << >>,
    <<ProtId(<<"A.raw">>, "PI_A")>>,
    <<ProtId(<<"A.raw">>, "PI_A"), ProtId(<<"B.raw">>, "PI_B")>>,
    <<ProtId(<<"A.raw">>, "PI_A"), ProtId(<<"A.raw">>, "PI_A2")>> }

Rec(uid, nhits) ==
  [meta |-> ("UID" :> uid), hits |-> IF nhits = 0 THEN << >> ELSE <<NoMeta>>,
   identifier |-> "PI_A"]

\* the contents of the file in_cm: every choice of identifications with the
\* protein identification runs of two spectra files, and every choice of
\* protein identification runs with one identification
AllCMs ==
  {[groups |-> g, unassigned |-> u,
    prot |-> <<ProtId(<<"A.raw">>, "PI_A"), ProtId(<<"B.raw">>, "PI_B")>>] :
     g \in SeqsUpTo(Lists1({r \in CanonRecs : r.hits # << >>}), MaxGroups),
     u \in Lists1(CanonRecs)}
  \cup
  {[groups |-> << >>, unassigned |-> <<Rec(101, 1)>>, prot |-> p] : p \in ProtLists}

\* two representative contents of the file in_cm
SmallCMs ==
  { [groups |-> << <<Rec(101, 1)>> >>, unassigned |-> <<Rec(102, 1)>>,
     prot |-> <<ProtId(<<"A.raw">>, "PI_A"), ProtId(<<"B.raw">>, "PI_B")>>],
    [groups |-> << <<Rec(101, 1)>> >>, unassigned |-> << >>,
     prot |-> <<ProtId(<<"A.raw">>, "PI_A")>>] }

\* the identifications of a featureXML file as they stand after the metrics
\* annotated them: without hits (created by a metric), or with one hit
TRecs ==
  {[meta |-> m, hits |-> << >>] :
     m \in {("qc" :> 1)} \cup {("UID" :> u) @@ ("qc" :> 1) : u \in UIDs}}
  \cup
  {[meta |-> m, hits |-> <<("qc" :> 1)>>] :
     m \in {("qc" :> q) : q \in QcValues}
           \cup {("UID" :> u) @@ ("qc" :> q) : u \in UIDs, q \in QcValues}}

\* a FeatureMap: its unassigned identifications and those of its one feature
\* (a feature's identifications have hits)
FMaps ==
  {[unassigned |-> u, features |-> <<f>>] :
     u \in Lists1(TRecs), f \in Lists1({r \in TRecs : r.hits # << >>})}

EmptyFMap == [unassigned |-> << >>, features |-> << >>]

\* three representative FeatureMaps, processed with the representative in_cm
SmallFMaps ==
  {f \in FMaps :
     /\ f.features = << <<[meta |-> ("UID" :> 101) @@ ("qc" :> 1), hits |-> <<("qc" :> 1)>>]>> >>
     /\ f.unassigned \in
          { << >>,
            <<[meta |-> ("qc" :> 1), hits |-> << >>]>>,
            <<[meta |-> ("UID" :> 102) @@ ("qc" :> 2), hits |-> <<("qc" :> 1)>>]>> }}

\* the numbers of runs every content of in_cm is processed with
RichRunCounts == {2}

\* the parameters: every combination of list lengths with a representative
\* in_cm, and every in_cm with spectra and features for every run
Params ==
  {[in_raw |-> a, in_postFDR |-> b, in_trafo |-> c, out_feat |-> d,
    in_contaminants |-> e, in_cm |-> f] :
     a \in 0..MaxFiles, b \in 0..MaxFiles, c \in 0..MaxFiles, d \in 0..MaxFiles,
     e \in BOOLEAN, f \in SmallCMs}
  \cup
  {[in_raw |-> n, in_postFDR |-> n, in_trafo |-> 0, out_feat |-> 0,
    in_contaminants |-> FALSE, in_cm |-> f] :
     n \in RichRunCounts, f \in AllCMs}

\* ---------------------------------------------------------------- requirements
Requires == {"RAWMZML", "POSTFDRFEAT", "CONTAMINANTS", "TRAFOALIGN"}

\* the metrics in the order main_ schedules them
Metrics ==
  <<"Contaminants", "FragmentMassError", "MissedCleavages", "Ms2IdentificationRate",
    "MzCalibration", "RTAlignment", "TIC", "TopNoverRT">>

MetricNames == {Metrics[k] : k \in DOMAIN Metrics}

\* QCBase::requires() of each metric: the input categories its compute is given
requires(m) ==
  CASE m = "Contaminants" -> {"POSTFDRFEAT", "CONTAMINANTS"}
    [] m = "FragmentMassError" -> {"RAWMZML", "POSTFDRFEAT"}
    [] m = "MissedCleavages" -> {"POSTFDRFEAT"}
    [] m = "Ms2IdentificationRate" -> {"RAWMZML", "POSTFDRFEAT"}
    [] m = "MzCalibration" -> {"RAWMZML", "POSTFDRFEAT"}
    [] m = "RTAlignment" -> {"POSTFDRFEAT", "TRAFOALIGN"}
    [] m = "TIC" -> {"RAWMZML"}
    [] m = "TopNoverRT" -> {"RAWMZML", "POSTFDRFEAT"}

\* FlagSet::isSuperSetOf
isSuperSetOf(s, other) == other \subseteq s

\* a runnability test that is content with one of the required inputs
isRunnable_Any(m, s) ==
  IF requires(m) \cap s # {}
  THEN [ok |-> TRUE, warn |-> {}]
  ELSE [ok |-> FALSE, warn |-> {<<m, r>> : r \in requires(m) \ s}]

\* isRunnable_: the verdict and the warnings logged
isRunnable_(m, s) ==
  IF isSuperSetOf(s, requires(m))
  THEN [ok |-> TRUE, warn |-> {}]
  ELSE [ok |-> FALSE,
        warn |-> {<<m, r>> : r \in {q \in Requires :
                     isSuperSetOf(requires(m), {q}) /\ ~isSuperSetOf(s, {q})}}]

\* ---------------------------------------------------------------- how main_ ends
Running == [code |-> "running", msg |-> << >>, at |-> ""]
\* main_ ends at its current position
Ended(code, msg) == [code |-> code, msg |-> msg, at |-> pc]
NoUIDMsg == <<"No unique ID at peptideidentifications found">>

\* ---------------------------------------------------------------- validator
\* a validator that skips the length comparison of line 366
updateFileStatus_NoCheck(st, port, req) ==
  LET files == param[port] IN
  IF files = 0 THEN [st EXCEPT !.files = files]
  ELSE [st EXCEPT !.number_exps = IF st.number_exps = 0 THEN files ELSE st.number_exps,
                  !.files = files, !.status = st.status \cup {req}]

\* updateFileStatus_ for the list of `port` (of size `files`) and requirement req:
\* the new status and number_exps, and whether InvalidParameter is thrown
updateFileStatus_(st, port, req) ==
  LET files == param[port] IN
  IF files = 0 THEN [st EXCEPT !.files = files]
  ELSE LET n == IF st.number_exps = 0 THEN files ELSE st.number_exps IN
       IF n # files
       THEN [st EXCEPT !.number_exps = n, !.files = files,
                       !.thrown = <<port, "invalid number of files", n>>]
       ELSE [st EXCEPT !.number_exps = n, !.files = files,
                       !.status = st.status \cup {req}]

ValidatorState == [status |-> status, number_exps |-> number_exps, files |-> 0, thrown |-> << >>]

\* one call of updateFileStatus_ in main_
Validate(port, req, next) ==
  LET r == updateFileStatus_(ValidatorState, port, req) IN
  /\ status' = r.status
  /\ number_exps' = r.number_exps
  /\ IF r.thrown # << >>
     THEN /\ pc' = "done"
          /\ ret' = Ended("InvalidParameter", r.thrown)
          /\ UNCHANGED <<in_raw, in_postFDR, in_trafo>>
     ELSE /\ pc' = next
          /\ ret' = ret
          /\ in_raw' = IF port = "in_raw" THEN r.files ELSE in_raw
          /\ in_postFDR' = IF port = "in_postFDR" THEN r.files ELSE in_postFDR
          /\ in_trafo' = IF port = "in_trafo" THEN r.files ELSE in_trafo
  /\ UNCHANGED <<param, cmap, cmap0, map_to_id, map_to_identifier, i, run_path,
                 all_new_upep_ids, calls, warned, custom, ub, met>>

ValidateRaw ==
  /\ pc = "in_raw"
  /\ Validate("in_raw", "RAWMZML", "in_postFDR")

ValidatePostFDR ==
  /\ pc = "in_postFDR"
  /\ Validate("in_postFDR", "POSTFDRFEAT", "in_trafo")

ValidateTrafo ==
  /\ pc = "in_trafo"
  /\ Validate("in_trafo", "TRAFOALIGN", "load_inputs")

\* ---------------------------------------------------------------- loading
\* main_, lines 138-149: the contaminant database and the ConsensusMap
LoadInputs ==
  /\ pc = "load_inputs"
  /\ status' = IF param.in_contaminants THEN status \cup {"CONTAMINANTS"} ELSE status
  /\ cmap' = param.in_cm
  /\ pc' = "build_index"
  /\ UNCHANGED <<param, ret, number_exps, in_raw, in_postFDR, in_trafo, cmap0, map_to_id,
                 map_to_identifier, i, run_path, all_new_upep_ids, calls, warned, custom, ub, met>>

\* ---------------------------------------------------------------- meta values
metaValueExists(obj, key) == key \in DOMAIN obj.meta
setMetaValue(obj, key, value) ==
  [obj EXCEPT !.meta = [k \in DOMAIN obj.meta \cup {key} |->
                          IF k = key THEN value ELSE obj.meta[k]]]

\* std::map::operator[]= on a map modelled as a function
MapPut(m, key, value) == [k \in DOMAIN m \cup {key} |-> IF k = key THEN value ELSE m[k]]

\* ---------------------------------------------------------------- pointers into cmap
\* the vector of identifications of consensus feature g, or the unassigned ones (g = 0)
PepIds(c, g) == IF g = 0 THEN c.unassigned ELSE c.groups[g]
Deref(c, ref) == PepIds(c, ref[1])[ref[2]]
HasTarget(c, ref) ==
  /\ ref[1] \in 0..Len(c.groups)
  /\ ref[2] \in 1..Len(PepIds(c, ref[1]))
\* assignment through a pointer
Assign(c, ref, rec) ==
  IF ref[1] = 0
  THEN [c EXCEPT !.unassigned[ref[2]] = rec]
  ELSE [c EXCEPT !.groups[ref[1]][ref[2]] = rec]
\* every pointer to an identification of c
Refs(c) == UNION {{<<g, s>> : s \in 1..Len(PepIds(c, g))} : g \in 0..Len(c.groups)}

\* ---------------------------------------------------------------- identity join index
\* fillPepIDMap_ from slot k of the vector on: st = [map, cmap, thrown]
RECURSIVE fillFrom(_, _, _, _)
fillFrom(st, g, group_id, k) ==
  IF k > Len(PepIds(st.cmap, g)) THEN st
  ELSE LET pep_id == PepIds(st.cmap, g)[k] IN
       IF ~metaValueExists(pep_id, "UID")
       THEN [st EXCEPT !.thrown = TRUE]
       ELSE fillFrom([st EXCEPT
                        !.cmap = Assign(st.cmap, <<g, k>>, setMetaValue(pep_id, "cf_id", group_id)),
                        !.map = MapPut(st.map, pep_id.meta["UID"], <<g, k>>)],
                     g, group_id, k + 1)

\* an index build whose loop variable is a copy of the identification (no `&`):
\* the stamps are lost and the pointers refer to no slot of the vector
fillPepIDMap_ByValue(st, g, group_id) ==
  LET r == fillFrom(st, g, group_id, 1) IN
  [r EXCEPT !.cmap = st.cmap,
            !.map = [u \in DOMAIN r.map |-> IF r.map[u][1] = g THEN <<g, 0>> ELSE r.map[u]]]

fillPepIDMap_(st, g, group_id) == fillFrom(st, g, group_id, 1)

\* main_, lines 154-157: the consensus features from g on
RECURSIVE fillGroups(_, _)
fillGroups(st, g) ==
  IF g > Len(st.cmap.groups) \/ st.thrown THEN st
  ELSE fillGroups(fillPepIDMap_(st, g, g - 1), g + 1)

\* main_, lines 153-158
BuildIndex ==
  /\ pc = "build_index"
  /\ LET st0 == [map |-> << >>, cmap |-> cmap, thrown |-> FALSE]
         st1 == fillGroups(st0, 1)
         st2 == IF st1.thrown THEN st1 ELSE fillPepIDMap_(st1, 0, -1)
     IN /\ cmap' = st2.cmap
        /\ map_to_id' = st2.map
        /\ IF st2.thrown
           THEN pc' = "done" /\ ret' = Ended("InvalidParameter", NoUIDMsg)
           ELSE pc' = "build_identifier_map" /\ ret' = ret
  /\ UNCHANGED <<param, status, number_exps, in_raw, in_postFDR, in_trafo, cmap0,
                 map_to_identifier, i, run_path, all_new_upep_ids, calls, warned, custom, ub, met>>

\* ---------------------------------------------------------------- run-to-identifier map
\* main_, lines 162-174, from protein identification k on: st = [map, duplicate]
RECURSIVE identifiersFrom(_, _, _)
identifiersFrom(st, prots, k) ==
  IF k > Len(prots) THEN st
  ELSE LET files == prots[k].run_path IN
       IF files \in DOMAIN st.map
       THEN [st EXCEPT !.duplicate = TRUE]
       ELSE identifiersFrom([st EXCEPT !.map = MapPut(st.map, files, prots[k].identifier)],
                            prots, k + 1)

\* the loop condition i < number_exps of the per-run loop
LoopHead(n) == IF n < number_exps THEN "load_run" ELSE "resolve"

BuildIdentifierMap ==
  /\ pc = "build_identifier_map"
  /\ LET st == identifiersFrom([map |-> << >>, duplicate |-> FALSE], cmap.prot, 1) IN
     /\ map_to_identifier' = st.map
     /\ IF st.duplicate
        THEN /\ pc' = "done"
             /\ ret' = Ended("ILLEGAL_PARAMETERS", <<"Multiple protein identifications">>)
             /\ cmap0' = cmap0
        ELSE /\ pc' = LoopHead(0)
             /\ ret' = ret
             /\ cmap0' = cmap
  /\ i' = 0
  /\ UNCHANGED <<param, status, number_exps, in_raw, in_postFDR, in_trafo, cmap, map_to_id,
                 run_path, all_new_upep_ids, calls, warned, custom, ub, met>>

\* ---------------------------------------------------------------- per-run loop: loading
\* a positional access list[n] to a list of size len
InBounds(len, n) == n < len

\* the lists main_ indexes at i when it loads the inputs of run i, lines 205-223
LoadedLists == {<<"in_raw", in_raw>>, <<"in_postFDR", in_postFDR>>, <<"in_trafo", in_trafo>>}

\* main_, lines 202-223: the spectra, the FeatureMap and the transformation of run i
LoadRun ==
  /\ pc = "load_run"
  /\ LET bad == {l[1] : l \in {x \in LoadedLists : x[2] # 0 /\ ~InBounds(x[2], i)}} IN
     /\ ub' = ub \cup bad
     /\ \E crash \in (IF bad = {} THEN {FALSE} ELSE BOOLEAN) :
          IF crash
          THEN pc' = "done" /\ ret' = Ended("crash", <<"list index out of range">>)
                            /\ run_path' = run_path
          ELSE /\ pc' = "calculations"
               /\ ret' = ret
               /\ run_path' \in (IF in_postFDR # 0 THEN RunPaths ELSE {<< >>})
  /\ UNCHANGED <<param, status, number_exps, in_raw, in_postFDR, in_trafo, cmap, cmap0,
                 map_to_id, map_to_identifier, i, all_new_upep_ids, calls, warned, custom>>
  /\ met' = {}

\* ---------------------------------------------------------------- per-run loop: scheduling
\* `if (isRunnable_(&m, status)) m.compute(...)` for the metrics from position k
\* to position last: st = [calls, warned]
RECURSIVE schedule(_, _, _)
schedule(st, k, last) ==
  IF k > last THEN st
  ELSE LET m == Metrics[k]
           r == isRunnable_(m, status)
       IN schedule([calls |-> IF r.ok THEN Append(st.calls, <<m, i>>) ELSE st.calls,
                    warned |-> st.warned \cup {<<w[1], w[2], i>> : w \in r.warn}],
                   k + 1, last)

\* main_, lines 228-261: every metric but TopNoverRT
Calculations ==
  /\ pc = "calculations"
  /\ LET st == schedule([calls |-> calls, warned |-> warned], 1, Len(Metrics) - 1) IN
     /\ calls' = st.calls
     /\ warned' = st.warned
  /\ pc' = "top_n"
  /\ UNCHANGED <<param, ret, status, number_exps, in_raw, in_postFDR, in_trafo, cmap, cmap0,
                 map_to_id, map_to_identifier, i, run_path, all_new_upep_ids, custom, ub, met>>

\* the identifications TopNoverRT::compute returns for run n: none or one, without hits
NewUPepIds(n) ==
  {<< >>, <<[meta |-> ("run" :> n), hits |-> << >>, identifier |-> ""]>>}

setIdentifier(pep_id, id) == [pep_id EXCEPT !.identifier = id]

\* a TopNoverRT step that stages the new identifications without looking the
\* run path up
TopNNoLookup ==
  /\ pc = "top_n"
  /\ LET st == schedule([calls |-> calls, warned |-> warned], Len(Metrics), Len(Metrics)) IN
     /\ calls' = st.calls
     /\ warned' = st.warned
     /\ IF ~isRunnable_("TopNoverRT", status).ok
        THEN UNCHANGED all_new_upep_ids
        ELSE \E new_upep_ids \in NewUPepIds(i) :
               all_new_upep_ids' = all_new_upep_ids \o new_upep_ids
  /\ pc' = "store_feat"
  /\ UNCHANGED <<param, ret, status, number_exps, in_raw, in_postFDR, in_trafo, cmap, cmap0,
                 map_to_id, map_to_identifier, i, run_path, custom, ub, met>>

\* a TopNoverRT step that appends the new identifications to the ConsensusMap
\* itself instead of staging them
TopNDirect ==
  /\ pc = "top_n"
  /\ LET st == schedule([calls |-> calls, warned |-> warned], Len(Metrics), Len(Metrics)) IN
     /\ calls' = st.calls
     /\ warned' = st.warned
     /\ IF ~isRunnable_("TopNoverRT", status).ok
        THEN /\ pc' = "store_feat"
             /\ UNCHANGED <<ret, cmap>>
        ELSE \E new_upep_ids \in NewUPepIds(i) :
               IF run_path \notin DOMAIN map_to_identifier
               THEN /\ pc' = "done"
                    /\ ret' = Ended("ILLEGAL_PARAMETERS", <<"run not found">>)
                    /\ UNCHANGED cmap
               ELSE /\ pc' = "store_feat"
                    /\ ret' = ret
                    /\ cmap' = [cmap EXCEPT !.unassigned = cmap.unassigned \o
                         [k \in 1..Len(new_upep_ids) |->
                            setIdentifier(new_upep_ids[k], map_to_identifier[run_path])]]
  /\ UNCHANGED <<param, status, number_exps, in_raw, in_postFDR, in_trafo, cmap0,
                 map_to_id, map_to_identifier, i, run_path, all_new_upep_ids, custom, ub, met>>

\* main_, lines 263-282: TopNoverRT and the staging of the identifications it creates
TopN ==
  /\ pc = "top_n"
  /\ LET st == schedule([calls |-> calls, warned |-> warned], Len(Metrics), Len(Metrics)) IN
     /\ calls' = st.calls
     /\ warned' = st.warned
     /\ IF ~isRunnable_("TopNoverRT", status).ok
        THEN /\ pc' = "store_feat"
             /\ UNCHANGED <<ret, all_new_upep_ids>>
        ELSE \E new_upep_ids \in NewUPepIds(i) :
               IF run_path \notin DOMAIN map_to_identifier
               THEN /\ pc' = "done"
                    /\ ret' = Ended("ILLEGAL_PARAMETERS", <<"run not found">>)
                    /\ UNCHANGED all_new_upep_ids
               ELSE /\ pc' = "store_feat"
                    /\ ret' = ret
                    /\ all_new_upep_ids' = all_new_upep_ids \o
                         [k \in 1..Len(new_upep_ids) |->
                            setIdentifier(new_upep_ids[k], map_to_identifier[run_path])]
  /\ UNCHANGED <<param, status, number_exps, in_raw, in_postFDR, in_trafo, cmap, cmap0,
                 map_to_id, map_to_identifier, i, run_path, custom, ub, met>>

\* main_, lines 284-288: the FeatureMap of run i is stored to out_feat[i]
StoreFeat ==
  /\ pc = "store_feat"
  /\ LET out_feat == param.out_feat
         bad == IF out_feat # 0 /\ ~InBounds(out_feat, i) THEN {"out_feat"} ELSE {}
     IN /\ ub' = ub \cup bad
        /\ \E crash \in (IF bad = {} THEN {FALSE} ELSE BOOLEAN) :
             IF crash
             THEN pc' = "done" /\ ret' = Ended("crash", <<"list index out of range">>)
             ELSE pc' = "merge" /\ ret' = ret
  /\ UNCHANGED <<param, status, number_exps, in_raw, in_postFDR, in_trafo, cmap, cmap0,
                 map_to_id, map_to_identifier, i, run_path, all_new_upep_ids, calls, warned,
                 custom, met>>

\* ---------------------------------------------------------------- per-run loop: merge-back
\* a copy that adds the value to the one already there
copyMetaValues_Accumulate(from, to) ==
  [key \in DOMAIN to \cup DOMAIN from |->
     IF key \notin DOMAIN from THEN to[key]
     ELSE IF key \in DOMAIN to THEN to[key] + from[key] ELSE from[key]]

\* copyMetaValues_ on the meta values of two objects: the new meta values of `to`
copyMetaValues_(from, to) ==
  [key \in DOMAIN to \cup DOMAIN from |-> IF key \in DOMAIN from THEN from[key] ELSE to[key]]

\* the kind of an identification: <<it has the UID meta value, it has hits>>
Kind(pep_id) == <<metaValueExists(pep_id, "UID"), pep_id.hits # << >>>>

\* copyPepIDMetaValues_ from slot k of pep_ids on: st = [cmap, exc, ub, met].
\* getHits()[0] on an identification without hits is undefined: the write is lost
\* and the loop goes on, or the process dies there (crash).
RECURSIVE copyFrom(_, _, _, _, _)
copyFrom(pep_ids, map, st, crash, k) ==
  IF k > Len(pep_ids) \/ st.exc # "none" THEN st
  ELSE LET ref_pep_id == pep_ids[k]
           s1 == [st EXCEPT !.met = st.met \cup {Kind(ref_pep_id)}]
       IN
       IF ref_pep_id.hits = << >> THEN copyFrom(pep_ids, map, s1, crash, k + 1)
       ELSE IF ~metaValueExists(ref_pep_id, "UID") THEN [s1 EXCEPT !.exc = "InvalidParameter"]
       ELSE IF ref_pep_id.meta["UID"] \notin DOMAIN map THEN [s1 EXCEPT !.exc = "out_of_range"]
       ELSE LET ref == map[ref_pep_id.meta["UID"]] IN
            IF ~HasTarget(s1.cmap, ref)
            THEN [s1 EXCEPT !.ub = s1.ub \cup {"map_to_id"}, !.exc = "crash"]
            ELSE LET pep_id == Deref(s1.cmap, ref)
                     pep_id1 == [pep_id EXCEPT !.meta = copyMetaValues_(ref_pep_id.meta, pep_id.meta)]
                 IN IF pep_id.hits = << >>
                    THEN copyFrom(pep_ids, map,
                                  [s1 EXCEPT !.cmap = Assign(s1.cmap, ref, pep_id1),
                                             !.ub = s1.ub \cup {"getHits()[0]"},
                                             !.exc = IF crash THEN "crash" ELSE "none"],
                                  crash, k + 1)
                    ELSE copyFrom(pep_ids, map,
                                  [s1 EXCEPT !.cmap = Assign(s1.cmap, ref,
                                     [pep_id1 EXCEPT !.hits[1] =
                                        copyMetaValues_(ref_pep_id.hits[1], pep_id.hits[1])])],
                                  crash, k + 1)

\* a merge-back that passes over the identifications without the UID meta value
copyPepIDMetaValues_SkipNoUID(pep_ids, map, st, crash) ==
  copyFrom(SelectSeq(pep_ids, LAMBDA r : metaValueExists(r, "UID")), map, st, crash, 1)

copyPepIDMetaValues_(pep_ids, map, st, crash) == copyFrom(pep_ids, map, st, crash, 1)

\* main_, lines 297-300: the identifications of the features from position k on
RECURSIVE copyFeatures(_, _, _, _, _)
copyFeatures(features, map, st, crash, k) ==
  IF k > Len(features) \/ st.exc # "none" THEN st
  ELSE copyFeatures(features, map, copyPepIDMetaValues_(features[k], map, st, crash),
                    crash, k + 1)

\* main_, lines 293-300, on the FeatureMap fmap
mergeBack(fmap, map, c, crash) ==
  copyFeatures(fmap.features, map,
               copyPepIDMetaValues_(fmap.unassigned, map,
                                    [cmap |-> c, exc |-> "none", ub |-> {}, met |-> {}], crash),
               crash, 1)

\* the FeatureMaps run i can have at line 293
FMapsOfRun ==
  IF in_postFDR = 0 THEN {EmptyFMap}
  ELSE IF param.in_cm \in SmallCMs THEN SmallFMaps ELSE FMaps

ExcMsg(exc) == IF exc = "InvalidParameter" THEN NoUIDMsg ELSE <<exc>>

MergeBack ==
  /\ pc = "merge"
  /\ \E fmap \in FMapsOfRun :
       \E crash \in (IF mergeBack(fmap, map_to_id, cmap, FALSE).ub = {} THEN {FALSE} ELSE BOOLEAN) :
         LET st == mergeBack(fmap, map_to_id, cmap, crash) IN
         /\ cmap' = st.cmap
         /\ ub' = ub \cup st.ub
         /\ met' = st.met
         /\ IF st.exc # "none"
            THEN pc' = "done" /\ ret' = Ended(st.exc, ExcMsg(st.exc)) /\ i' = i
            ELSE pc' = LoopHead(i + 1) /\ ret' = ret /\ i' = i + 1
  /\ run_path' = << >>
  /\ UNCHANGED <<param, status, number_exps, in_raw, in_postFDR, in_trafo, cmap0, map_to_id,
                 map_to_identifier, all_new_upep_ids, calls, warned, custom>>

\* ---------------------------------------------------------------- report assembly
\* the slots of a vector other than slot k, in order
Others(ids, k) == SelectSeq([n \in 1..Len(ids) |-> <<n, ids[n]>>], LAMBDA x : x[1] # k)

RECURSIVE Flatten(_)
Flatten(ss) == IF ss = << >> THEN << >> ELSE Head(ss) \o Flatten(Tail(ss))

\* IDConflictResolverAlgorithm::resolve: every consensus feature keeps the
\* identification keep[g] and the others are moved to the unassigned ones
resolve(c, keep) ==
  [c EXCEPT
     !.groups = [g \in 1..Len(c.groups) |->
                   IF c.groups[g] = << >> THEN << >> ELSE <<c.groups[g][keep[g]]>>],
     !.unassigned = c.unassigned \o
        Flatten([g \in 1..Len(c.groups) |->
                   [n \in 1..Len(Others(c.groups[g], keep[g])) |->
                      Others(c.groups[g], keep[g])[n][2]]])]

\* the choices of the identification each consensus feature keeps
Keeps(c) ==
  {k \in [1..Len(c.groups) -> 0..1] :
     \A g \in 1..Len(c.groups) : k[g] = IF c.groups[g] = << >> THEN 0 ELSE 1}

\* main_, line 304
Resolve ==
  /\ pc = "resolve"
  /\ \E keep \in Keeps(cmap) : cmap' = resolve(cmap, keep)
  /\ pc' = "attach"
  /\ UNCHANGED <<param, ret, status, number_exps, in_raw, in_postFDR, in_trafo, cmap0,
                 map_to_id, map_to_identifier, i, run_path, all_new_upep_ids, calls, warned,
                 custom, ub>>
  /\ met' = {}

\* main_, line 307: the staged identifications are appended to the unassigned ones
AttachNew ==
  /\ pc = "attach"
  /\ cmap' = [cmap EXCEPT !.unassigned = cmap.unassigned \o all_new_upep_ids]
  /\ pc' = "export"
  /\ UNCHANGED <<param, ret, status, number_exps, in_raw, in_postFDR, in_trafo, cmap0,
                 map_to_id, map_to_identifier, i, run_path, all_new_upep_ids, calls, warned,
                 custom, ub, met>>

\* the keys meta.custom can hold after MzTab::exportConsensusMapToMzTab
CustomKeySets == SUBSET {0, 1}

\* main_, lines 312-320: the ConsensusMap is stored and exported; meta is the
\* exported MzTab's meta data
Export ==
  /\ pc = "export"
  /\ \E keys \in CustomKeySets : custom' = [k \in keys |-> <<"exported", k>>]
  /\ pc' = "tic_meta"
  /\ UNCHANGED <<param, ret, status, number_exps, in_raw, in_postFDR, in_trafo, cmap, cmap0,
                 map_to_id, map_to_identifier, i, run_path, all_new_upep_ids, calls, warned, ub, met>>

\* the results a metric holds: one for every compute call made
Results(m) == SelectSeq(calls, LAMBDA c : c[1] = m)

\* `meta.custom[meta.custom.size()] = entry` for the results from n on, named kind_<n+1>
RECURSIVE appendCustom(_, _, _, _)
appendCustom(cust, kind, results, n) ==
  IF n >= Len(results) THEN cust
  ELSE appendCustom(MapPut(cust, Cardinality(DOMAIN cust), <<kind, n + 1>>), kind, results, n + 1)

\* main_, lines 322-338
TicMeta ==
  /\ pc = "tic_meta"
  /\ custom' = appendCustom(custom, "TIC_", Results("TIC"), 0)
  /\ pc' = "ms2_meta"
  /\ UNCHANGED <<param, ret, status, number_exps, in_raw, in_postFDR, in_trafo, cmap, cmap0,
                 map_to_id, map_to_identifier, i, run_path, all_new_upep_ids, calls, warned, ub, met>>

\* main_, lines 340-355
Ms2Meta ==
  /\ pc = "ms2_meta"
  /\ custom' = appendCustom(custom, "MS2_ID_Rate_", Results("Ms2IdentificationRate"), 0)
  /\ pc' = "done"
  /\ ret' = Ended("EXECUTION_OK", << >>)
  /\ UNCHANGED <<param, status, number_exps, in_raw, in_postFDR, in_trafo, cmap, cmap0,
                 map_to_id, map_to_identifier, i, run_path, all_new_upep_ids, calls, warned, ub, met>>

\* ---------------------------------------------------------------- initial state
EmptyCMap == [groups |-> << >>, unassigned |-> << >>, prot |-> << >>]

Init ==
  /\ param \in Params
  /\ pc = "in_raw"
  /\ ret = Running
  /\ status = {}
  /\ number_exps = 0
  /\ in_raw = 0
  /\ in_postFDR = 0
  /\ in_trafo = 0
  /\ cmap = EmptyCMap
  /\ cmap0 = EmptyCMap
  /\ map_to_id = << >>
  /\ map_to_identifier = << >>
  /\ i = 0
  /\ run_path = << >>
  /\ all_new_upep_ids = << >>
  /\ calls = << >>
  /\ warned = {}
  /\ custom = << >>
  /\ ub = {}
  /\ met = {}

Next ==
  \/ ValidateRaw
  \/ ValidatePostFDR
  \/ ValidateTrafo
  \/ LoadInputs
  \/ BuildIndex
  \/ BuildIdentifierMap
  \/ LoadRun
  \/ Calculations
  \/ TopN
  \/ StoreFeat
  \/ MergeBack
  \/ Resolve
  \/ AttachNew
  \/ Export
  \/ TicMeta
  \/ Ms2Meta

Spec == Init /\ [][Next]_vars

\* ---------------------------------------------------------------- positions
ValidatorPcs == {"in_raw", "in_postFDR", "in_trafo"}
LoopPcs == {"load_run", "calculations", "top_n", "store_feat", "merge"}
PostPcs == {"resolve", "attach", "export", "tic_meta", "ms2_meta"}
\* where main_ is, or where it ended
Where == IF pc = "done" THEN ret.at ELSE pc

\* ---------------------------------------------------------------- C1
Ports == <<"in_raw", "in_postFDR", "in_trafo">>
NonEmptyPorts == {k \in 1..3 : param[Ports[k]] # 0}
Min(S) == CHOOSE x \in S : \A y \in S : x <= y
\* the length of the first non-empty list, 0 when all are empty
FirstLength == IF NonEmptyPorts = {} THEN 0 ELSE param[Ports[Min(NonEmptyPorts)]]
\* the non-empty lists whose length differs from the first non-empty list's
Mismatched == {k \in NonEmptyPorts : param[Ports[k]] # FirstLength}

\* past the three validator calls: number_exps is the length of every
\* non-empty list and the status holds the requirement of each of them
C1_ValidatorContract ==
  Where \notin ValidatorPcs =>
    /\ Mismatched = {}
    /\ number_exps = FirstLength
    /\ \A k \in 1..3 : param[Ports[k]] \in {0, number_exps}
    /\ <<in_raw, in_postFDR, in_trafo>> = <<param.in_raw, param.in_postFDR, param.in_trafo>>
    /\ status \cap {"RAWMZML", "POSTFDRFEAT", "TRAFOALIGN"} =
         {r \in {"RAWMZML", "POSTFDRFEAT", "TRAFOALIGN"} :
            \E k \in NonEmptyPorts : <<Ports[k], r>> \in
              {<<"in_raw", "RAWMZML">>, <<"in_postFDR", "POSTFDRFEAT">>,
               <<"in_trafo", "TRAFOALIGN">>}}

\* main_ ended in a validator call: on the first list whose length differs
C1_ValidatorFails ==
  (Where \in ValidatorPcs /\ pc = "done") =>
    /\ Mismatched # {}
    /\ ret = [code |-> "InvalidParameter",
              msg |-> <<Ports[Min(Mismatched)], "invalid number of files", FirstLength>>,
              at |-> Ports[Min(Mismatched)]]
    /\ i = 0 /\ calls = << >> /\ warned = {} /\ cmap = EmptyCMap

\* C1: once the validator has been applied to in_raw, in_postFDR and in_trafo in
\* that order, either it threw InvalidParameter naming the first list whose
\* length differs from the established run count (and the per-run loop is
\* never entered), or all lists are empty and number_exps is 0, or every
\* non-empty list has number_exps elements.
C1_Validator == C1_ValidatorContract /\ C1_ValidatorFails

\* lengths {2, 2, 1}: the validator failed on the third list
C1_Witness ==
  /\ param.in_raw = 2 /\ param.in_postFDR = 2 /\ param.in_trafo = 1
  /\ ret.code = "InvalidParameter" /\ ret.at = "in_trafo"

\* ---------------------------------------------------------------- C2
UIDOf(c, ref) == Deref(c, ref).meta["UID"]
\* every identification of c carries the UID meta value, and no two the same
UniqueKeys(c) ==
  /\ \A r \in Refs(c) : metaValueExists(Deref(c, r), "UID")
  /\ \A r1, r2 \in Refs(c) : r1 # r2 => UIDOf(c, r1) # UIDOf(c, r2)

\* C2: when the K identifications of the consensus map all carry a UID and no
\* two carry the same, the index built over every consensus feature and the
\* unassigned ones has exactly K entries and maps the UID of each
\* identification to a pointer to that very identification.
C2_IndexComplete ==
  (Where \in {"build_identifier_map"} \cup LoopPcs /\ UniqueKeys(param.in_cm)) =>
    /\ Cardinality(DOMAIN map_to_id) = Cardinality(Refs(param.in_cm))
    /\ Refs(cmap) = Refs(param.in_cm)
    /\ \A r \in Refs(cmap) :
         /\ UIDOf(cmap, r) = UIDOf(param.in_cm, r)
         /\ map_to_id[UIDOf(cmap, r)] = r

\* an index of two entries, one for a consensus feature's identification and
\* one for an unassigned one
C2_Witness ==
  /\ pc = "load_run"
  /\ UniqueKeys(param.in_cm)
  /\ Cardinality(DOMAIN map_to_id) = 2
  /\ \E u1, u2 \in DOMAIN map_to_id : map_to_id[u1][1] = 0 /\ map_to_id[u2][1] = 1

\* ---------------------------------------------------------------- C5
\* C5: every list indexed at i in the per-run loop has more than i elements
\* when it is indexed: in_raw, in_postFDR and in_trafo when run i is loaded,
\* out_feat when the run's FeatureMap is stored.
C5_AccessesInBounds ==
  /\ pc = "load_run" =>
       \A len \in {in_raw, in_postFDR, in_trafo} : len # 0 => InBounds(len, i)
  /\ pc = "store_feat" => (param.out_feat # 0 => InBounds(param.out_feat, i))

\* ---------------------------------------------------------------- C10
\* C10: merge-back never accesses a hit that does not exist: when the top hit's
\* meta values are copied, the identification the index refers to has a hit.
C10_NoMissingHitAccess == "getHits()[0]" \notin ub

\* ---------------------------------------------------------------- C3
\* what merge-back leaves alone: which identifications every vector of the
\* ConsensusMap holds (their UID, their number of hits, their identifier)
Skeleton(c) ==
  [g \in 0..Len(c.groups) |->
     [n \in 1..Len(PepIds(c, g)) |->
        [uid |-> IF metaValueExists(PepIds(c, g)[n], "UID") THEN PepIds(c, g)[n].meta["UID"] ELSE 0,
         hits |-> Len(PepIds(c, g)[n].hits),
         run |-> IF metaValueExists(PepIds(c, g)[n], "run") THEN PepIds(c, g)[n].meta["run"] ELSE -1,
         identifier |-> PepIds(c, g)[n].identifier]]]

RunNotFound == pc = "done" /\ ret.code = "ILLEGAL_PARAMETERS" /\ ret.at = "top_n"

\* C3 as claimed, for the runs in which the run path is looked up: a run whose
\* run path matches no protein identification run does not get past the
\* lookup, and when main_ returns ILLEGAL_PARAMETERS there the ConsensusMap,
\* its identifications and their meta values, is as it was when the per-run
\* loop started.
C3_FailsUnmutated ==
  /\ (pc \in {"store_feat", "merge"} /\ requires("TopNoverRT") \subseteq status)
       => run_path \in DOMAIN map_to_identifier
  /\ (RunNotFound /\ ub = {}) => cmap = cmap0

\* C3 as amended: when TopNoverRT is runnable in run i and the run path of the
\* run's FeatureMap matches no protein identification run, main_ returns
\* ILLEGAL_PARAMETERS in that step, which neither stages an identification nor
\* changes the ConsensusMap; the ConsensusMap then holds the identifications
\* it held when the loop started, with the meta values the merge-backs of the
\* runs before i copied onto them.
C3_FailsWithoutStaging ==
  /\ [][(pc = "top_n" /\ run_path \notin DOMAIN map_to_identifier
           /\ requires("TopNoverRT") \subseteq status)
          => (RunNotFound' /\ cmap' = cmap /\ all_new_upep_ids' = all_new_upep_ids)]_vars
  /\ [](RunNotFound =>
          /\ run_path \notin DOMAIN map_to_identifier
          /\ requires("TopNoverRT") \subseteq status
          /\ Skeleton(cmap) = Skeleton(cmap0))

\* the lookup failed in the second run, after the merge-back of the first run
\* had changed the ConsensusMap
C3_Witness == RunNotFound /\ i = 1 /\ cmap # cmap0

\* ---------------------------------------------------------------- C4
AppendSteps ==
  {<<"tic_meta", "TIC_", "TIC">>, <<"ms2_meta", "MS2_ID_Rate_", "Ms2IdentificationRate">>}

\* C4: the entries TIC_<n> and MS2_ID_Rate_<n> are added to meta.custom under
\* the keys size, size + 1, ... counted from the mapping's size before the
\* step, and every entry the mapping held before keeps its key and value.
C4_AppendsNeverOverwrite ==
  [][\A a \in AppendSteps :
       pc = a[1] =>
         LET size == Cardinality(DOMAIN custom)
             n == Len(Results(a[3]))
         IN /\ \A k \in DOMAIN custom : k \in DOMAIN custom' /\ custom'[k] = custom[k]
            /\ DOMAIN custom' \ DOMAIN custom = size..(size + n - 1)
            /\ \A k \in 1..n : custom'[size + k - 1] = <<a[2], k>>]_vars

\* ---------------------------------------------------------------- C6
\* the identifications of a FeatureMap in the order merge-back meets them
Flat(fmap) == fmap.unassigned \o Flatten(fmap.features)

\* merge-back goes on to the next identification after r
Passes(r, crash) ==
  \/ r.hits = << >>
  \/ /\ metaValueExists(r, "UID")
     /\ r.meta["UID"] \in DOMAIN map_to_id
     /\ (Deref(cmap, map_to_id[r.meta["UID"]]).hits # << >> \/ ~crash)

\* C6 as claimed: an identification without the UID meta value that merge-back
\* examined made it throw InvalidParameter, whether or not it has hits.
C6_EveryKeylessRecordThrows ==
  (\E k \in met : k[1] = FALSE) => (pc = "done" /\ ret.code = "InvalidParameter")

\* C6 as amended: merge-back throws InvalidParameter, with the message of the
\* index build, exactly when it reaches an identification that has a hit and
\* no UID meta value; identifications without hits are passed over without an
\* error, with or without the UID.
C6_KeylessRecordWithHitsThrows ==
  /\ pc = "merge" =>
       \A fmap \in FMapsOfRun : \A crash \in BOOLEAN :
         LET f == Flat(fmap)
             r == mergeBack(fmap, map_to_id, cmap, crash)
         IN /\ (\E j \in 1..Len(f) :
                  /\ f[j].hits # << >> /\ ~metaValueExists(f[j], "UID")
                  /\ \A n \in 1..(j - 1) : Passes(f[n], crash))
               <=> r.exc = "InvalidParameter"
            /\ (\A j \in 1..Len(f) : f[j].hits = << >>) => (r.exc = "none" /\ r.cmap = cmap)
  /\ <<FALSE, TRUE>> \in met <=>
       (pc = "done" /\ ret.at = "merge" /\ ret.code = "InvalidParameter")
  /\ (pc = "done" /\ ret.code = "InvalidParameter" /\ ret.at \in {"merge", "build_index"})
       => ret.msg = NoUIDMsg

\* merge-back passed over an identification with neither UID nor hits and then
\* threw at one with a hit and no UID
C6_Witness ==
  /\ pc = "done" /\ ret.at = "merge" /\ ret.code = "InvalidParameter"
  /\ met = {<<FALSE, FALSE>>, <<FALSE, TRUE>>}

\* ---------------------------------------------------------------- C7
\* C7: for the index and the ConsensusMap of any run and any FeatureMap,
\* merge-back applied a second time to the same FeatureMap leaves every meta
\* value of every identification and top hit as the first application left it,
\* whenever the process dies in neither application (an application that
\* throws is applied again and throws at the same identification).
C7_MergeBackIdempotent ==
  pc = "merge" =>
    \A fmap \in FMapsOfRun :
      \A c1, c2 \in (IF mergeBack(fmap, map_to_id, cmap, FALSE).ub = {} THEN {FALSE} ELSE BOOLEAN) :
        LET once == mergeBack(fmap, map_to_id, cmap, c1)
            twice == mergeBack(fmap, map_to_id, once.cmap, c2)
        IN (once.exc # "crash" /\ twice.exc # "crash") =>
             (twice.cmap = once.cmap /\ twice.exc = once.exc)

\* the second run's merge-back is about to work on identifications the first
\* run's merge-back annotated
C7_Witness ==
  /\ pc = "merge" /\ i = 1
  /\ \E r \in Refs(cmap) :
       /\ metaValueExists(Deref(cmap, r), "qc")
       /\ Deref(cmap, r).hits # << >> /\ "qc" \in DOMAIN Deref(cmap, r).hits[1]

\* ---------------------------------------------------------------- C8
Count(m, r) == Cardinality({k \in DOMAIN calls : calls[k] = <<m, r>>})
WarnedFor(m, r) == {q \in Requires : <<m, q, r>> \in warned}
Runs == 0..(number_exps - 1)
LoopReached == Where \in LoopPcs \cup PostPcs

\* C8 as claimed: when main_ has ended, a metric whose requirements the status
\* holds was computed exactly once in each of the number_exps runs, and any
\* other metric was computed in no run and warned about exactly its missing
\* requirements.
C8_OncePerRunOfAll ==
  (pc = "done" /\ LoopReached) =>
    \A m \in MetricNames :
      IF requires(m) \subseteq status
      THEN \A r \in Runs : Count(m, r) = 1
      ELSE /\ \A r \in Runs : Count(m, r) = 0
           /\ UNION {WarnedFor(m, r) : r \in 0..MaxFiles} = requires(m) \ status

\* the runs in which main_ has come to the runnability test of metric m
Scheduled(m) ==
  (0..(i - 1)) \cup
  (IF \/ Where \in {"store_feat", "merge"}
      \/ (m # "TopNoverRT" /\ Where = "top_n")
      \/ (m = "TopNoverRT" /\ pc = "done" /\ ret.at = "top_n")
   THEN {i} ELSE {})

\* C8 as amended: in every run in which main_ comes to the runnability test of
\* a metric (all number_exps runs when main_ returns EXECUTION_OK, fewer when a
\* fatal error ends it, none when number_exps is 0), the metric is computed
\* exactly once if the status holds its requirements, and otherwise not
\* computed and warned about for exactly its missing requirements; in no other
\* run is it computed or warned about; a status with more requirements keeps
\* every runnable metric runnable.
C8_OncePerScheduledRun ==
  /\ LoopReached =>
       /\ \A m \in MetricNames : \A r \in 0..MaxFiles :
            /\ Count(m, r) =
                 IF r \in Scheduled(m) /\ requires(m) \subseteq status THEN 1 ELSE 0
            /\ WarnedFor(m, r) =
                 IF r \in Scheduled(m) /\ ~(requires(m) \subseteq status)
                 THEN requires(m) \ status ELSE {}
       /\ ret.code = "EXECUTION_OK" => \A m \in MetricNames : Scheduled(m) = Runs
  /\ pc = "calculations" =>
       \A m \in MetricNames : \A s \in SUBSET Requires :
         (status \subseteq s /\ isRunnable_(m, status).ok) => isRunnable_(m, s).ok

\* main_ returned EXECUTION_OK after two runs in which TIC was computed and
\* Contaminants was not
C8_Witness ==
  /\ ret.code = "EXECUTION_OK" /\ number_exps = 2
  /\ Count("TIC", 0) = 1 /\ Count("TIC", 1) = 1
  /\ Count("Contaminants", 1) = 0 /\ WarnedFor("Contaminants", 1) = {"CONTAMINANTS"}

\* ---------------------------------------------------------------- C9
\* the runs that produced the staged identifications, in staging order
StagedRuns == [k \in 1..Len(all_new_upep_ids) |-> all_new_upep_ids[k].meta["run"]]

\* C9: from the index build to the end of the per-run loop every vector of the
\* ConsensusMap holds the identifications it held, every index entry points
\* to the identification with its UID, and the new identifications are only
\* staged, in run order; after the loop the conflicts are resolved first, then
\* the staged identifications are appended, each once and in order, to the
\* unassigned ones, and only then comes the export, which changes neither.
C9_StagedUntilAfterLoop ==
  /\ [](Where \in LoopPcs \cup {"resolve"} =>
          /\ Skeleton(cmap) = Skeleton(cmap0)
          /\ \A u \in DOMAIN map_to_id :
               HasTarget(cmap, map_to_id[u]) /\ UIDOf(cmap, map_to_id[u]) = u
          /\ \A j, k \in 1..Len(StagedRuns) : j < k => StagedRuns[j] < StagedRuns[k]
          /\ \A k \in 1..Len(StagedRuns) : StagedRuns[k] \in 0..(number_exps - 1))
  /\ [][/\ pc = "resolve" =>
             /\ pc' = "attach" /\ all_new_upep_ids' = all_new_upep_ids
             /\ \A r \in Refs(cmap') : ~metaValueExists(Deref(cmap', r), "run")
        /\ pc = "attach" =>
             /\ pc' = "export"
             /\ cmap'.groups = cmap.groups
             /\ cmap'.unassigned = cmap.unassigned \o all_new_upep_ids
        /\ pc \in {"export", "tic_meta", "ms2_meta"} => cmap' = cmap
        /\ pc' = "export" => pc = "attach"
        /\ pc' = "attach" => pc = "resolve"]_vars

\* both runs staged an identification and both are at the end of the
\* unassigned ones when the export begins
C9_Witness ==
  /\ pc = "export" /\ Len(all_new_upep_ids) = 2
  /\ Len(cmap.unassigned) >= 2
  /\ SubSeq(cmap.unassigned, Len(cmap.unassigned) - 1, Len(cmap.unassigned)) = all_new_upep_ids
  /\ StagedRuns = <<0, 1>>
====
